---- MODULE Spec2Model ----
(***************************************************************************)
(* Cursor (keyset) pagination plugin: findPaged / aggregatePaged           *)
(* (src/src/index.ts) and prepareResponse / prepareCursor (response.ts,    *)
(* kept as src/unnamed/part_000).  query.ts (generateSort,                 *)
(* generateCursorQuery) and utils/bsonUrlEncoding.ts are not part of the   *)
(* source tree at hand; they are modelled from sections 4.1-4.3 of the     *)
(* specification and the data store from section 6.                        *)
(***************************************************************************)
EXTENDS Integers, Sequences, FiniteSets, TLC

VARIABLES
    pluginOptions,  \* the plugin's configuration (closure of index.ts:16)
    dataset,        \* the documents of the collection (stable)
    options,        \* the caller's IPaginateOptions object (mutable)
    batch,          \* the documents handed to prepareResponse
    totalIn,        \* the totalDocs argument handed to prepareResponse
    result,         \* what the last call returned (or threw)
    calls,          \* history of the calls made, oldest first
    pc              \* position of the caller

vars == <<pluginOptions, dataset, options, batch, totalIn, result, calls, pc>>

(***************************************************************************)
(* Bounds of the model.                                                    *)
(***************************************************************************)
MaxBatch == 3       \* longest batch handed to prepareResponse directly
MaxDocs == 3        \* documents in the collection, call specification
MaxLimit == 2       \* largest limit a caller supplies
MaxCalls == 2       \* successive calls with one request object
MaxPagingDocs == 3  \* documents in the collection, paging specification
MaxSteps == MaxPagingDocs + 1   \* pages a paging session fetches

(***************************************************************************)
(* JavaScript values.  A value is [t, n]: t is its type, n its number      *)
(* (0 when the type carries none).                                         *)
(***************************************************************************)
Undefined == [t |-> "undef", n |-> 0]
NaN == [t |-> "nan", n |-> 0]
Null == [t |-> "null", n |-> 0]
ObjectVal == [t |-> "obj", n |-> 0]
Num(i) == [t |-> "num", n |-> i]
Bool(b) == [t |-> "bool", n |-> IF b THEN 1 ELSE 0]

\* ToBoolean: undefined, null, NaN, 0 and false are falsy.
Truthy(v) ==
    CASE v.t = "num" -> v.n # 0
      [] v.t = "bool" -> v.n = 1
      [] v.t = "obj" -> TRUE
      [] OTHER -> FALSE

\* x + 1 on a number-typed x: undefined + 1 and NaN + 1 are NaN.
PlusOne(v) == IF v.t = "num" THEN Num(v.n + 1) ELSE NaN

\* isNaN(x): ToNumber(undefined) is NaN.
isNaN(v) == v.t \in {"undef", "nan"}

\* x < 0 and x === 0: false for undefined and NaN.
LtZero(v) == v.t = "num" /\ v.n < 0
IsZero(v) == v.t = "num" /\ v.n = 0

\* A cursor option (options.next, options.previous): absent, or a token.
NoCursor == [has |-> FALSE, tok |-> <<>>]
Cursor(tok) == [has |-> TRUE, tok |-> tok]
\* ToBoolean of a string or undefined: the empty string is falsy.
TruthyStr(c) == c.has /\ c.tok # <<>>

(***************************************************************************)
(* Documents.  A field name is a sequence of chunks, a sort key a sequence *)
(* of chunks in which "." separates the segments of a nested path.  A      *)
(* document maps the paths of its leaves to numbers.                       *)
(***************************************************************************)
IdKey == <<"_id">>
IdPath == <<IdKey>>

MkDoc(id, a, nb) ==
    (IdPath :> id) @@ (<< <<"a">> >> :> a) @@ (<< <<"n">>, <<"b">> >> :> nb)

\* String.prototype.split("."): the segments between the dots, empty ones kept.
RECURSIVE SplitFrom(_, _, _)
SplitFrom(key, cur, acc) ==
    IF key = <<>> THEN Append(acc, cur)
    ELSE IF Head(key) = "." THEN SplitFrom(Tail(key), <<>>, Append(acc, cur))
    ELSE SplitFrom(Tail(key), Append(cur, Head(key)), acc)

split(key) == SplitFrom(key, <<>>, <<>>)

IsProperPrefix(p, q) ==
    /\ Len(p) < Len(q)
    /\ \A i \in 1..Len(p) : p[i] = q[i]

\* R.path(segments, doc): the value at the nested path, undefined when the
\* path leaves the document.
path(p, doc) ==
    IF p \in DOMAIN doc THEN Num(doc[p])
    ELSE IF \E q \in DOMAIN doc : IsProperPrefix(p, q) THEN ObjectVal
    ELSE Undefined

\* Object.keys(sortOptions): the keys in insertion order.
Keys(sortOptions) == [i \in 1..Len(sortOptions.e) |-> sortOptions.e[i].key]

(***************************************************************************)
(* bsonUrlEncoding (utils/bsonUrlEncoding.ts, specification 4.1): a value  *)
(* sequence is serialised element by element with its type; undefined has  *)
(* no BSON type inside an array and is written as null.                    *)
(***************************************************************************)
EncodeValue(v) ==
    CASE v.t = "num" -> [tag |-> "int", n |-> v.n]
      [] v.t = "obj" -> [tag |-> "document", n |-> 0]
      [] OTHER -> [tag |-> "null", n |-> 0]

encode(values) == [i \in 1..Len(values) |-> EncodeValue(values[i])]

DecodeValue(e) ==
    CASE e.tag = "int" -> Num(e.n)
      [] e.tag = "document" -> ObjectVal
      [] OTHER -> Null

decode(tok) == [i \in 1..Len(tok) |-> DecodeValue(tok[i])]

(***************************************************************************)
(* response.ts                                                             *)
(***************************************************************************)
\* A slip: _id is not filtered out of the keys.
keysWithId(sortOptions) == Keys(sortOptions)

\* prepareCursor: the values of the sort keys other than _id, then _id.
keysExceptId(sortOptions) == SelectSeq(Keys(sortOptions), LAMBDA k : k # IdKey)

\* The default parameter: sortOptions = {} when the caller passed undefined.
orEmpty(sortOptions) ==
    IF sortOptions.def THEN sortOptions ELSE [def |-> TRUE, e |-> <<>>]

cursorValues(doc, sortOptions) ==
    LET ks == keysExceptId(orEmpty(sortOptions))
    IN  [i \in 1..Len(ks) |-> path(split(ks[i]), doc)] \o <<path(IdPath, doc)>>

prepareCursor(doc, sortOptions) == encode(cursorValues(doc, sortOptions))

\* options.limit && _docs.length > options.limit
hasMore(_docs, opts) ==
    IF Truthy(opts.limit) THEN Bool(Len(_docs) > opts.limit.n) ELSE opts.limit

\* Array.prototype.pop: drops the last element, nothing on an empty array.
pop(s) == IF s = <<>> THEN s ELSE SubSeq(s, 1, Len(s) - 1)

reverse(s) == [i \in 1..Len(s) |-> s[Len(s) + 1 - i]]

\* if (hasMore) _docs.pop()
trimmed(_docs, opts) == IF Truthy(hasMore(_docs, opts)) THEN pop(_docs) ELSE _docs

\* A slip: a backward page is returned in fetch order.
displayDocsNoReverse(_docs, opts) == trimmed(_docs, opts)

\* const docs = options.previous ? _docs.reverse() : _docs
displayDocs(_docs, opts) ==
    IF TruthyStr(opts.previous) THEN reverse(trimmed(_docs, opts))
    ELSE trimmed(_docs, opts)

\* A slip: the next cursor is taken from the first document of the page.
nextCursorFirst(docs) == docs[1]

\* docs[docs.length - 1] and docs[0]: the documents the cursors are made of.
nextCursorDoc(docs) == docs[Len(docs)]
previousCursorDoc(docs) == docs[1]

\* A slip: the backward branch forgets hasMore.
hasPreviousNoMore(opts, hm) == TruthyStr(opts.next) \/ TruthyStr(opts.previous)

hasPreviousOf(opts, hm) ==
    IF TruthyStr(opts.next) \/ (TruthyStr(opts.previous) /\ Truthy(hm))
    THEN TRUE ELSE FALSE

hasNextOf(opts, hm) ==
    IF TruthyStr(opts.previous) \/ Truthy(hm) THEN TRUE ELSE FALSE

NoResult ==
    [kind |-> "none", docs |-> <<>>, hasPrevious |-> FALSE, hasNext |-> FALSE,
     next |-> NoCursor, previous |-> NoCursor, hasTotalDocs |-> FALSE,
     totalDocs |-> 0]

\* What the caller sees when the call throws (kind names the error).
Thrown(kind) == [NoResult EXCEPT !.kind = kind]

\* prepareResponse.  prepareCursor(undefined, ...) reads doc._id of undefined
\* and throws a TypeError: that happens when a cursor is due on an empty page.
prepareResponse(_docs, opts, totalDocs) ==
    LET hm == hasMore(_docs, opts)
        docs == displayDocs(_docs, opts)
        hasPrevious == hasPreviousOf(opts, hm)
        hasNext == hasNextOf(opts, hm)
        sortOptions == opts.sortOptions
    IN  IF (hasNext \/ hasPrevious) /\ docs = <<>> THEN Thrown("TypeError")
        ELSE [kind |-> "ok",
              docs |-> docs,
              hasPrevious |-> hasPrevious,
              hasNext |-> hasNext,
              next |-> IF hasNext
                       THEN Cursor(prepareCursor(nextCursorDoc(docs), sortOptions))
                       ELSE NoCursor,
              previous |-> IF hasPrevious
                           THEN Cursor(prepareCursor(previousCursorDoc(docs), sortOptions))
                           ELSE NoCursor,
              hasTotalDocs |-> totalDocs.t # "undef",
              totalDocs |-> totalDocs.n]

(***************************************************************************)
(* query.ts (specification 4.2, 4.3).                                      *)
(***************************************************************************)
\* generateSort: the caller's keys other than _id in order, then _id
\* ascending; every direction inverted when paging backward.
generateSort(opts) ==
    LET so == orEmpty(opts.sortOptions)
        es == SelectSeq(so.e, LAMBDA x : x.key # IdKey)
        flip == IF TruthyStr(opts.previous) THEN -1 ELSE 1
    IN  [i \in 1..Len(es) |-> [key |-> es[i].key, dir |-> es[i].dir * flip]]
            \o <<[key |-> IdKey, dir |-> flip]>>

EmptyQuery == [has |-> FALSE, or |-> <<>>]

\* generateCursorQuery: no cursor, the empty query; otherwise clause i of the
\* disjunction holds k_j == v_j for j < i and k_i > v_i (ascending traversal)
\* or k_i < v_i (descending).
generateCursorQuery(opts) ==
    IF ~TruthyStr(opts.next) /\ ~TruthyStr(opts.previous) THEN EmptyQuery
    ELSE LET tok == IF TruthyStr(opts.previous) THEN opts.previous.tok
                    ELSE opts.next.tok
             v == decode(tok)
             sort == generateSort(opts)
             n == IF Len(v) < Len(sort) THEN Len(v) ELSE Len(sort)
             clause(i) ==
                 [eq |-> [j \in 1..(i - 1) |-> [key |-> sort[j].key, val |-> v[j]]],
                  key |-> sort[i].key,
                  op |-> IF sort[i].dir = 1 THEN "$gt" ELSE "$lt",
                  val |-> v[i]]
         IN  [has |-> TRUE, or |-> [i \in 1..n |-> clause(i)]]

(***************************************************************************)
(* The data store (specification 6): fetch(filter, sortOrder, limit) and   *)
(* count(filter).  Values compare within their type; null and missing      *)
(* sort before numbers, embedded documents after.                          *)
(***************************************************************************)
FieldOf(doc, key) == path(split(key), doc)

SortRank(v) ==
    CASE v.t \in {"undef", "null"} -> 0
      [] v.t \in {"num", "nan", "bool"} -> 1
      [] OTHER -> 2

ValueEq(v, w) == SortRank(v) = SortRank(w) /\ (SortRank(v) = 1 => v.n = w.n)

ValueLess(v, w) ==
    \/ SortRank(v) < SortRank(w)
    \/ SortRank(v) = 1 /\ SortRank(w) = 1 /\ v.n < w.n

\* $gt and $lt match values of the operand's type only.
Compare(op, v, w) ==
    /\ SortRank(v) = 1 /\ SortRank(w) = 1
    /\ IF op = "$gt" THEN v.n > w.n ELSE v.n < w.n

Matches(doc, query) ==
    ~query.has \/
    \E i \in 1..Len(query.or) :
        LET c == query.or[i]
        IN  /\ \A j \in 1..Len(c.eq) : ValueEq(FieldOf(doc, c.eq[j].key), c.eq[j].val)
            /\ Compare(c.op, FieldOf(doc, c.key), c.val)

\* d1 sorts before d2 under the sort order.
Precedes(d1, d2, sort) ==
    \E i \in 1..Len(sort) :
        /\ \A j \in 1..(i - 1) :
              ValueEq(FieldOf(d1, sort[j].key), FieldOf(d2, sort[j].key))
        /\ IF sort[i].dir = 1
           THEN ValueLess(FieldOf(d1, sort[i].key), FieldOf(d2, sort[i].key))
           ELSE ValueLess(FieldOf(d2, sort[i].key), FieldOf(d1, sort[i].key))

RECURSIVE SortDocs(_, _)
SortDocs(S, sort) ==
    IF S = {} THEN <<>>
    ELSE LET first == CHOOSE d \in S : \A e \in S \ {d} : Precedes(d, e, sort)
         IN  <<first>> \o SortDocs(S \ {first}, sort)

\* A fetch size the store accepts: 0, which both operations send to ask for
\* every document (index.ts:55, :94), or a positive count.  A negative size
\* or NaN makes the fetch fail.
ValidFetchSize(size) == size.t = "num" /\ size.n >= 0

StoreFetch(docs, query, sort, size) ==
    LET all == SortDocs({d \in docs : Matches(d, query)}, sort)
    IN  IF size.n = 0 \/ Len(all) <= size.n THEN all ELSE SubSeq(all, 1, size.n)

StoreCount(docs) == Cardinality(docs)

(***************************************************************************)
(* index.ts                                                                *)
(***************************************************************************)
DefaultLimit == 10

defaultLimitOf(po) ==
    IF po.def /\ Truthy(po.defaultLimit) THEN po.defaultLimit ELSE Num(DefaultLimit)

useDefaultLimit(limit, po) ==
    \/ isNaN(limit)
    \/ LtZero(limit)
    \/ (IsZero(limit) /\ po.def /\ po.dontAllowUnlimitedResults)

unlimitedOf(limit, po) ==
    IsZero(limit) /\ (~po.def \/ ~po.dontAllowUnlimitedResults)

\* options.limit = useDefaultLimit ? defaultLimit : options.limit
normalisedLimit(limit, po) ==
    IF useDefaultLimit(limit, po) THEN defaultLimitOf(po) ELSE limit

\* findPaged: .limit(unlimited ? 0 : options.limit + 1), options.limit
\* already replaced (line 47 precedes line 55).
findFetchSize(limit, po) ==
    IF unlimitedOf(limit, po) THEN Num(0) ELSE PlusOne(normalisedLimit(limit, po))

\* aggregatePaged: const limit = unlimited ? 0 : options.limit + 1, before
\* options.limit is replaced (line 94 precedes line 96).
aggregateFetchSize(limit, po) ==
    IF unlimitedOf(limit, po) THEN Num(0) ELSE PlusOne(limit)

\* findPaged: the count is skipped when dontReturnTotalDocs is set.
findCounts(po) == ~(po.def /\ po.dontReturnTotalDocs)

\* aggregatePaged: countDocs = pluginOptions && pluginOptions.dontReturnTotalDocs
aggregateCounts(po) == po.def /\ po.dontReturnTotalDocs

\* One call: what it sent to the store, what it got, what it returned, and
\* the request object as the call left it.  options.limit is replaced before
\* the store is asked (lines 47 and 96), so the replacement stays when the
\* fetch fails.  aggregatePaged sorts, appends the caller's pipeline (empty
\* here), matches the cursor query and limits; with the count it does the
\* same inside a $facet, whose result is read as its type annotation has it
\* (lines 101-104).
runPaged(op, opts, po, docs, size, counts) ==
    LET after == [opts EXCEPT !.limit = normalisedLimit(opts.limit, po)]
        query == generateCursorQuery(after)
        sort == generateSort(after)
        ok == ValidFetchSize(size)
        fetched == IF ok THEN StoreFetch(docs, query, sort, size) ELSE <<>>
        total == IF counts THEN Num(StoreCount(docs)) ELSE Undefined
    IN  [op |-> op,
         limitIn |-> opts.limit,
         next |-> opts.next,
         previous |-> opts.previous,
         unlimited |-> unlimitedOf(opts.limit, po),
         query |-> query,
         sort |-> sort,
         fetchSize |-> size,
         counted |-> counts,
         fetched |-> fetched,
         optionsAfter |-> after,
         result |-> IF ok THEN prepareResponse(fetched, after, total)
                    ELSE Thrown("StoreError")]

findPaged(opts, po, docs) ==
    runPaged("findPaged", opts, po, docs, findFetchSize(opts.limit, po),
             findCounts(po))

aggregatePaged(opts, po, docs) ==
    runPaged("aggregatePaged", opts, po, docs, aggregateFetchSize(opts.limit, po),
             aggregateCounts(po))

(***************************************************************************)
(* Inputs.                                                                 *)
(***************************************************************************)
\* The documents prepareResponse is tried on: a varies, n.b varies.
DocOf(i) == MkDoc(i, i % 2, (i + 1) \div 2)

\* Sequences without repetition over S, of length at most n.
RECURSIVE DistinctSeqs(_, _)
DistinctSeqs(S, n) ==
    IF n = 0 THEN {<<>>}
    ELSE LET shorter == DistinctSeqs(S, n - 1)
         IN  shorter \cup
             {Append(s, x) : s \in {t \in shorter : Len(t) = n - 1},
                             x \in S}

NoRepeat(s) == \A i, j \in 1..Len(s) : i # j => s[i] # s[j]

SortKeys == {<<"a">>, <<"n", ".", "b">>, IdKey, <<"n">>, <<"b">>}
Directions == {1, -1}

\* Sort specifications: an ordered mapping of up to two distinct keys to
\* directions, or undefined.
SortEntries == {[key |-> k, dir |-> d] : k \in SortKeys, d \in Directions}
SortPairs == {p \in SortEntries \X SortEntries : p[1].key # p[2].key /\ p[1].dir = 1}
SortSpecs ==
    {[def |-> FALSE, e |-> <<>>], [def |-> TRUE, e |-> <<>>]} \cup
    {[def |-> TRUE, e |-> <<x>>] : x \in SortEntries} \cup
    {[def |-> TRUE, e |-> <<p[1], p[2]>>] : p \in SortPairs}

\* What a caller may put in options.limit, and what prepareResponse finds
\* there (findPaged and aggregatePaged have replaced the invalid ones).
LimitValues == {Undefined, NaN} \cup {Num(i) : i \in -1..MaxLimit}
NormalLimits == {Num(i) : i \in 0..MaxLimit}
SomeToken == encode(<<Num(1)>>)
CursorValues == {NoCursor, Cursor(SomeToken)}
TotalValues == {Undefined, Num(0), Num(2)}

NoPlugin ==
    [def |-> FALSE, dontReturnTotalDocs |-> FALSE,
     dontAllowUnlimitedResults |-> FALSE, defaultLimit |-> Undefined]

(***************************************************************************)
(* Specification of prepareResponse on its own: any batch, any request.    *)
(***************************************************************************)
InitResponse ==
    /\ pluginOptions = NoPlugin
    /\ dataset = {}
    /\ \E ids \in {s \in DistinctSeqs(1..MaxBatch, MaxBatch) : NoRepeat(s)} :
          batch = [i \in 1..Len(ids) |-> DocOf(ids[i])]
    /\ \E l \in NormalLimits, s \in SortSpecs, n \in CursorValues,
          p \in CursorValues :
          options = [limit |-> l, sortOptions |-> s, next |-> n, previous |-> p]
    /\ totalIn \in TotalValues
    /\ result = NoResult
    /\ calls = <<>>
    /\ pc = "ready"

PrepareResponse ==
    /\ pc = "ready"
    /\ result' = prepareResponse(batch, options, totalIn)
    /\ pc' = "done"
    /\ UNCHANGED <<pluginOptions, dataset, options, batch, totalIn, calls>>

NextResponse == PrepareResponse

SpecResponse == InitResponse /\ [][NextResponse]_vars

(***************************************************************************)
(* Specification of the two operations: a caller makes up to MaxCalls      *)
(* calls with one request object, which it does not touch in between.      *)
(***************************************************************************)
PluginValues ==
    {NoPlugin} \cup
    [def : {TRUE}, dontReturnTotalDocs : BOOLEAN,
     dontAllowUnlimitedResults : BOOLEAN,
     defaultLimit : {Undefined, Num(0), Num(1)}]

Collection(k) == {DocOf(i) : i \in 1..k}

CallSortSpecs ==
    {[def |-> FALSE, e |-> <<>>],
     [def |-> TRUE, e |-> <<[key |-> <<"a">>, dir |-> 1]>>],
     [def |-> TRUE, e |-> <<[key |-> <<"n", ".", "b">>, dir |-> -1],
                            [key |-> <<"a">>, dir |-> 1]>>]}

Init ==
    /\ pluginOptions \in PluginValues
    /\ \E k \in 0..MaxDocs : dataset = Collection(k)
    /\ \E l \in LimitValues, s \in CallSortSpecs, c \in {"none", "next", "previous"} :
          options =
              [limit |-> l, sortOptions |-> s,
               next |-> IF c = "next" THEN Cursor(prepareCursor(DocOf(1), s))
                        ELSE NoCursor,
               previous |-> IF c = "previous" THEN Cursor(prepareCursor(DocOf(3), s))
                            ELSE NoCursor]
    /\ batch = <<>>
    /\ totalIn = Undefined
    /\ result = NoResult
    /\ calls = <<>>
    /\ pc = "ready"

Record(call) ==
    /\ options' = call.optionsAfter
    /\ result' = call.result
    /\ calls' = Append(calls, call)
    /\ UNCHANGED <<pluginOptions, dataset, batch, totalIn, pc>>

FindPaged ==
    /\ pc = "ready"
    /\ Len(calls) < MaxCalls
    /\ Record(findPaged(options, pluginOptions, dataset))

AggregatePaged ==
    /\ pc = "ready"
    /\ Len(calls) < MaxCalls
    /\ Record(aggregatePaged(options, pluginOptions, dataset))

Next == FindPaged \/ AggregatePaged

Spec == Init /\ [][Next]_vars

(***************************************************************************)
(* Specification of a paging session over a stable collection: a first     *)
(* page without cursor, then each request re-issued with the next or the   *)
(* previous cursor of the last result.                                     *)
(***************************************************************************)
PagingValues == 0..1

\* Every collection of k documents with identifiers 1..k.
RECURSIVE Collections(_)
Collections(k) ==
    IF k = 0 THEN {{}}
    ELSE {c \cup {MkDoc(k, a, nb)} :
             c \in Collections(k - 1), a \in PagingValues, nb \in PagingValues}

KeyA == <<"a">>
KeyNB == <<"n", ".", "b">>

PagingSortSpecs ==
    {[def |-> FALSE, e |-> <<>>], [def |-> TRUE, e |-> <<>>]} \cup
    {[def |-> TRUE, e |-> <<[key |-> k, dir |-> d]>>] :
        k \in {KeyA, KeyNB}, d \in Directions} \cup
    {[def |-> TRUE, e |-> <<[key |-> KeyA, dir |-> d], [key |-> KeyNB, dir |-> e]>>] :
        d \in Directions, e \in Directions} \cup
    {[def |-> TRUE, e |-> <<[key |-> KeyNB, dir |-> 1], [key |-> KeyA, dir |-> -1]>>],
     [def |-> TRUE, e |-> <<[key |-> KeyA, dir |-> -1], [key |-> IdKey, dir |-> 1]>>]}

\* Requests with an effective limit of at least 1: a positive limit, or
\* limit 0 replaced by a configured default.
PagingSetups ==
    {[po |-> NoPlugin, limit |-> Num(i)] : i \in 1..MaxLimit} \cup
    {[po |-> [def |-> TRUE, dontReturnTotalDocs |-> TRUE,
              dontAllowUnlimitedResults |-> TRUE, defaultLimit |-> Num(1)],
      limit |-> Num(0)]}

InitPaging ==
    /\ \E k \in 0..MaxPagingDocs : dataset \in Collections(k)
    /\ \E u \in PagingSetups, s \in PagingSortSpecs :
          /\ pluginOptions = u.po
          /\ options = [limit |-> u.limit, sortOptions |-> s,
                        next |-> NoCursor, previous |-> NoCursor]
    /\ batch = <<>>
    /\ totalIn = Undefined
    /\ result = NoResult
    /\ calls = <<>>
    /\ pc = "start"

Fetch(opts) ==
    LET call == findPaged(opts, pluginOptions, dataset)
    IN  /\ options' = call.optionsAfter
        /\ result' = call.result
        /\ calls' = Append(calls, call)
        /\ pc' = "paging"
        /\ UNCHANGED <<pluginOptions, dataset, batch, totalIn>>

FirstPage ==
    /\ pc = "start"
    /\ Fetch(options)

NextPage ==
    /\ pc = "paging"
    /\ Len(calls) < MaxSteps
    /\ result.kind = "ok" /\ result.hasNext
    /\ Fetch([options EXCEPT !.next = result.next, !.previous = NoCursor])

PreviousPage ==
    /\ pc = "paging"
    /\ Len(calls) < MaxSteps
    /\ result.kind = "ok" /\ result.hasPrevious
    /\ Fetch([options EXCEPT !.previous = result.previous, !.next = NoCursor])

NextPaging == FirstPage \/ NextPage \/ PreviousPage

SpecPaging == InitPaging /\ [][NextPaging]_vars

(***************************************************************************)
(* Properties of findPaged and aggregatePaged (Spec).                      *)
(***************************************************************************)
Backward(c) == c.previous.has
EffectiveN(c) == c.optionsAfter.limit.n

\* C3 as stated: with effective limit N > 0, a fetch of N + 1 documents is
\* returned as its first N documents (the sentinel dropped) with the overflow
\* flag set; a fetch of N or fewer documents is returned whole with the
\* overflow flag clear; and every page of findPaged and aggregatePaged has at
\* most N documents.  The overflow flag is hasNext going forward and
\* hasPrevious going backward; a backward page is returned in reverse fetch
\* order.
CexC3_OverflowTrimming ==
    \A k \in 1..Len(calls) :
        LET c == calls[k]
            N == EffectiveN(c)
            r == c.result
            more == IF Backward(c) THEN r.hasPrevious ELSE r.hasNext
            kept == IF Len(c.fetched) = N + 1 THEN N ELSE Len(c.fetched)
        IN  (N > 0 /\ r.kind = "ok") =>
                /\ Len(r.docs) <= N
                /\ Len(c.fetched) = N + 1 => more
                /\ Len(c.fetched) <= N => ~more
                /\ Len(r.docs) = kept
                /\ \A i \in 1..kept :
                      r.docs[i] = IF Backward(c) THEN c.fetched[kept + 1 - i]
                                  ELSE c.fetched[i]

\* The limit the claim expects a call to work with: the caller's when it is a
\* positive number, or 0 with unlimited results allowed; otherwise the
\* configured defaultLimit, 10 when none is configured.
UnlimitedAllowed == ~pluginOptions.def \/ ~pluginOptions.dontAllowUnlimitedResults
ConfiguredDefault ==
    IF pluginOptions.def /\ pluginOptions.defaultLimit.t = "num"
       /\ pluginOptions.defaultLimit.n > 0
    THEN pluginOptions.defaultLimit.n ELSE 10
ExpectedLimit(l) ==
    IF l.t = "num" /\ (l.n > 0 \/ (l.n = 0 /\ UnlimitedAllowed)) THEN l.n
    ELSE ConfiguredDefault

\* C5 as stated: in findPaged and aggregatePaged alike the effective limit is
\* the caller's valid limit or else the default; a call that is not unlimited
\* asks the store for exactly effective limit + 1 documents, and
\* prepareResponse works with that same limit; no limit makes the call fail.
CexC5_FetchSize ==
    \A k \in 1..Len(calls) :
        LET c == calls[k]
            N == ExpectedLimit(c.limitIn)
        IN  /\ c.optionsAfter.limit = Num(N)
            /\ ~c.unlimited => c.fetchSize = Num(N + 1)
            /\ c.result.kind # "StoreError"

\* C7 as stated: in findPaged and aggregatePaged alike the result carries
\* totalDocs iff dontReturnTotalDocs is not set, and nothing is counted when
\* it is set.
CexC7_TotalDocs ==
    \A k \in 1..Len(calls) :
        LET c == calls[k]
            wanted == ~(pluginOptions.def /\ pluginOptions.dontReturnTotalDocs)
        IN  /\ c.counted = wanted
            /\ c.result.kind = "ok" => c.result.hasTotalDocs = wanted

\* The same call made with options.limit = defaultLimit.
WithDefaultLimit(c) ==
    LET opts == [limit |-> Num(ConfiguredDefault),
                 sortOptions |-> c.optionsAfter.sortOptions,
                 next |-> c.next, previous |-> c.previous]
    IN  IF c.op = "findPaged" THEN findPaged(opts, pluginOptions, dataset)
        ELSE aggregatePaged(opts, pluginOptions, dataset)

\* C8 as stated: a call with limit 0 and unlimited results allowed asks the
\* store for everything (fetch size 0), returns every fetched document, and
\* has hasNext only when a previous cursor was supplied; a call with limit 0
\* and dontAllowUnlimitedResults set behaves as the call with
\* limit = defaultLimit.
CexC8_Unlimited ==
    \A k \in 1..Len(calls) :
        LET c == calls[k]
        IN  (c.limitIn = Num(0)) =>
                IF UnlimitedAllowed
                THEN /\ c.unlimited
                     /\ c.fetchSize = Num(0)
                     /\ c.result.kind = "ok" =>
                           /\ Len(c.result.docs) = Len(c.fetched)
                           /\ Len(c.fetched) =
                                 Cardinality({d \in dataset : Matches(d, c.query)})
                           /\ c.result.hasNext => c.previous.has
                ELSE /\ ~c.unlimited
                     /\ c.fetchSize = WithDefaultLimit(c).fetchSize
                     /\ c.fetched = WithDefaultLimit(c).fetched
                     /\ c.result = WithDefaultLimit(c).result

\* C9 as stated: two successive calls of the same operation with the same
\* request object send the same filter, sort and fetch size to the store and
\* return equal results.
CexC9_Independence ==
    (Len(calls) >= 2 /\ calls[1].op = calls[2].op) =>
        /\ calls[1].query = calls[2].query
        /\ calls[1].sort = calls[2].sort
        /\ calls[1].fetchSize = calls[2].fetchSize
        /\ calls[1].result = calls[2].result

(***************************************************************************)
(* Properties of prepareResponse and prepareCursor (SpecResponse).         *)
(***************************************************************************)
\* Overflow as the specification states it: limit > 0 and more than limit
\* documents fetched.
Overflow == options.limit.n > 0 /\ Len(batch) > options.limit.n

\* C2: hasPrevious is true exactly when a next cursor was supplied, or a
\* previous cursor was supplied and the batch overflowed; hasNext exactly when
\* a previous cursor was supplied or the batch overflowed; with no cursor
\* hasPrevious is false and hasNext is the overflow.  Both are booleans.  The
\* flags are those computed at response.ts:25-26, and those of the result
\* whenever one is returned.
ThmC2_EdgeFlags ==
    LET hm == hasMore(batch, options)
        expPrev == options.next.has \/ (options.previous.has /\ Overflow)
        expNext == options.previous.has \/ Overflow
    IN  /\ hasPreviousOf(options, hm) \in BOOLEAN
        /\ hasNextOf(options, hm) \in BOOLEAN
        /\ hasPreviousOf(options, hm) = expPrev
        /\ hasNextOf(options, hm) = expNext
        /\ (pc = "done" /\ result.kind = "ok") =>
              /\ result.hasPrevious = expPrev
              /\ result.hasNext = expNext
              /\ (~options.next.has /\ ~options.previous.has) =>
                    (~result.hasPrevious /\ result.hasNext = Overflow)

\* A backward page that overflowed has been returned with both flags set.
WitC2_BackwardOverflow ==
    /\ pc = "done" /\ result.kind = "ok"
    /\ options.previous.has /\ ~options.next.has /\ Overflow
    /\ result.hasPrevious /\ result.hasNext

\* C4 as stated: every call of prepareResponse returns a PageResult, an empty
\* batch fetched with a cursor included; next is present iff hasNext and
\* previous iff hasPrevious; next is the cursor of the last returned document
\* and previous that of the first.
CexC4_CursorPresence ==
    pc = "done" =>
        /\ result.kind = "ok"
        /\ result.next.has <=> result.hasNext
        /\ result.previous.has <=> result.hasPrevious
        /\ result.hasNext =>
              result.next.tok =
                  prepareCursor(result.docs[Len(result.docs)], options.sortOptions)
        /\ result.hasPrevious =>
              result.previous.tok = prepareCursor(result.docs[1], options.sortOptions)

\* The value a sort key names in a document of the model, written out key by
\* key: a and n.b are leaves, n is an embedded document, b is no field.
ValueAt(doc, key) ==
    CASE key = <<"a">> -> Num(doc[<< <<"a">> >>])
      [] key = <<"n", ".", "b">> -> Num(doc[<< <<"n">>, <<"b">> >>])
      [] key = <<"n">> -> ObjectVal
      [] OTHER -> Undefined

\* The caller's keys (none when sortOptions is undefined).
CallerKeys(so) == IF so.def THEN [i \in 1..Len(so.e) |-> so.e[i].key] ELSE <<>>

\* How many of the first j caller keys are not _id.
NonIdCount(ks, j) == Cardinality({i \in 1..j : ks[i] # IdKey})

\* Length of the effective sort key list: the caller's keys, and _id if it
\* is not among them.
EffectiveLen(ks) ==
    Len(ks) + (IF \E i \in 1..Len(ks) : ks[i] = IdKey THEN 0 ELSE 1)

TupleShape(v, doc, so) ==
    LET ks == CallerKeys(so)
    IN  /\ Len(v) = EffectiveLen(ks)
        /\ v[Len(v)] = Num(doc[IdPath])
        /\ \A j \in 1..Len(ks) :
              ks[j] # IdKey => v[NonIdCount(ks, j)] = ValueAt(doc, ks[j])
        /\ NonIdCount(ks, Len(ks)) = Len(v) - 1

\* C10: for every document and sort specification the value sequence
\* prepareCursor encodes has the length of the effective sort key list, holds
\* the values of the caller's non-identifier keys in insertion order (dotted
\* keys resolved as nested paths), and the identifier once, last.
ThmC10_TupleShape ==
    /\ \A i \in 1..Len(batch) :
          TupleShape(cursorValues(batch[i], options.sortOptions), batch[i],
                     options.sortOptions)
    /\ (pc = "done" /\ result.kind = "ok" /\ result.hasNext) =>
          /\ Len(result.next.tok) = EffectiveLen(CallerKeys(options.sortOptions))
          /\ result.next.tok[Len(result.next.tok)] =
                EncodeValue(Num(result.docs[Len(result.docs)][IdPath]))

\* A cursor was produced under a specification that lists _id first and a
\* dotted key second.
WitC10_IdListedFirst ==
    /\ pc = "done" /\ result.kind = "ok" /\ result.hasNext
    /\ options.sortOptions.def
    /\ Len(options.sortOptions.e) = 2
    /\ options.sortOptions.e[1].key = IdKey
    /\ options.sortOptions.e[2].key = <<"n", ".", "b">>
    /\ Len(result.next.tok) = 2

(***************************************************************************)
(* Properties of paging sessions (SpecPaging).                             *)
(***************************************************************************)
\* The display order, stated on the caller's sort specification: d comes
\* before e when, at the first of the caller's keys other than _id on which
\* they differ, d has the smaller value (ascending) or the larger
\* (descending); when they differ on none, d has the smaller identifier.
DisplayBefore(d, e, so) ==
    LET ks == CallerKeys(so)
        dir(i) == so.e[i].dir
        differ(i) == ks[i] # IdKey /\ ValueAt(d, ks[i]) # ValueAt(e, ks[i])
    IN  \/ \E i \in 1..Len(ks) :
              /\ differ(i)
              /\ \A j \in 1..(i - 1) : ~differ(j)
              /\ IF dir(i) = 1 THEN ValueAt(d, ks[i]).n < ValueAt(e, ks[i]).n
                 ELSE ValueAt(d, ks[i]).n > ValueAt(e, ks[i]).n
        \/ /\ \A i \in 1..Len(ks) : ~differ(i)
           /\ d[IdPath] < e[IdPath]

RECURSIVE Concat(_, _)
Concat(cs, k) == IF k = 0 THEN <<>> ELSE Concat(cs, k - 1) \o cs[k].result.docs

\* The session so far is the forward loop: no request carried a previous
\* cursor.
ForwardLoop == Len(calls) >= 1 /\ \A k \in 1..Len(calls) : ~calls[k].previous.has

\* C1: paging forward from the start, every page is returned; the pages
\* concatenated hold no document twice and are in display order; when a page
\* has hasNext = false they hold every document of the collection; and the
\* loop ends: a page with hasNext = true has exactly N >= 1 documents and
\* leaves at least one document unvisited.
ThmC1_ForwardPaging ==
    ForwardLoop =>
        LET seen == Concat(calls, Len(calls))
            so == options.sortOptions
            last == calls[Len(calls)].result
        IN  /\ \A k \in 1..Len(calls) : calls[k].result.kind = "ok"
            /\ \A i \in 1..Len(seen) : seen[i] \in dataset
            /\ \A i, j \in 1..Len(seen) :
                  i < j => DisplayBefore(seen[i], seen[j], so)
            /\ ~last.hasNext => {seen[i] : i \in 1..Len(seen)} = dataset
            /\ \A k \in 1..Len(calls) :
                  calls[k].result.hasNext =>
                      /\ Len(calls[k].result.docs) = options.limit.n
                      /\ options.limit.n >= 1
                      /\ Len(Concat(calls, k)) < Cardinality(dataset)
            /\ Len(calls) <= Cardinality(dataset) \/ Len(calls) = 1

\* The forward loop has ended after three pages of one document each, two of
\* which tie on the sort key.
WitC1_LoopEnded ==
    /\ ForwardLoop
    /\ Len(calls) = 3
    /\ ~result.hasNext /\ result.kind = "ok"
    /\ Len(options.sortOptions.e) = 1
    /\ \E d, e \in dataset : d # e /\ d[<<KeyA>>] = e[<<KeyA>>]
    /\ options.sortOptions.e[1].key = KeyA
    /\ {calls[k].result.docs[1] : k \in 1..3} = dataset

\* Calls k, k + 1, k + 2 are a page Q fetched without previous cursor, the
\* page after Q.next, and the page before that page's previous cursor.
ThereAndBack(k) ==
    /\ k + 2 <= Len(calls)
    /\ ~calls[k].previous.has
    /\ calls[k].result.kind = "ok" /\ calls[k].result.hasNext
    /\ calls[k + 1].next = calls[k].result.next /\ ~calls[k + 1].previous.has
    /\ calls[k + 1].result.kind = "ok"
    /\ calls[k + 2].previous = calls[k + 1].result.previous
    /\ calls[k + 2].previous.has /\ ~calls[k + 2].next.has

\* C6: paging back from the page that follows Q returns the documents of Q
\* in the same order; when Q is the first page of the result set (fetched
\* without cursor) the backward result has hasPrevious = false and
\* hasNext = true.
ThmC6_BackwardReproduces ==
    \A k \in 1..Len(calls) :
        ThereAndBack(k) =>
            /\ calls[k + 2].result.kind = "ok"
            /\ calls[k + 2].result.docs = calls[k].result.docs
            /\ ~calls[k].next.has =>
                  /\ ~calls[k + 2].result.hasPrevious
                  /\ calls[k + 2].result.hasNext

\* A first page of two documents was reproduced by paging back from the
\* second page.
WitC6_FirstPageReproduced ==
    /\ ThereAndBack(1)
    /\ Len(calls[1].result.docs) = 2
    /\ calls[3].result.docs = calls[1].result.docs
    /\ Len(options.sortOptions.e) = 2

====
